---- MODULE Spec2Model ----
(***************************************************************************)
(* A model of thinkbayes.py: the dictionary-backed Hist and Pmf, the Cdf   *)
(* with its bulk constructor and lookups, and the Suite update protocol.   *)
(*                                                                         *)
(* Probabilities are exact rationals <<numerator, denominator>> in lowest  *)
(* terms with a positive denominator, so that "==" of the source is "=" of *)
(* the model.  Floating-point rounding is outside the model.               *)
(*                                                                         *)
(* A dictionary is a function whose DOMAIN is the set of its keys.         *)
(* Every operation records what it was called with in op and what it       *)
(* returned or raised in ret.                                              *)
(***************************************************************************)
EXTENDS Integers, Sequences, FiniteSets, TLC

VARIABLES suite, pmf, hists, cdf, nops, op, ret

vars == <<suite, pmf, hists, cdf, nops, op, ret>>

(***************************************************************************)
(* Bounds of the model.                                                    *)
(***************************************************************************)
MaxData == 3        \* data items a Suite is updated with in one run

MaxBatch == 2       \* length of a dataset handed to UpdateSet

(***************************************************************************)
(* Rational arithmetic.                                                    *)
(***************************************************************************)
Abs(n) == IF n < 0 THEN -n ELSE n

RECURSIVE Gcd(_, _)
Gcd(a, b) == IF b = 0 THEN a ELSE Gcd(b, a % b)

Rat(n, dn) ==
    LET g == Gcd(Abs(n), Abs(dn))
        s == IF dn < 0 THEN -1 ELSE 1
    IN  <<(s * n) \div g, (s * dn) \div g>>

Zero == <<0, 1>>
One == <<1, 1>>
Half == <<1, 2>>

RAdd(a, b) == Rat(a[1] * b[2] + b[1] * a[2], a[2] * b[2])
RMul(a, b) == Rat(a[1] * b[1], a[2] * b[2])
RDiv(a, b) == Rat(a[1] * b[2], a[2] * b[1])
RLt(a, b) == a[1] * b[2] < b[1] * a[2]
RLe(a, b) == a[1] * b[2] <= b[1] * a[2]

(***************************************************************************)
(* What an operation hands back: a value, or the exception it raised.      *)
(***************************************************************************)
None == <<>>
Returned(v) == [err |-> "none", val |-> v]
Raised(e) == [err |-> e, val |-> None]

EmptyDict == <<>>

(***************************************************************************)
(* _DictWrapper and Pmf over rational weights.                             *)
(***************************************************************************)
RECURSIVE SumOver(_, _)
SumOver(d, keys) ==
    IF keys = {} THEN Zero
    ELSE LET k == CHOOSE x \in keys : TRUE
         IN  RAdd(d[k], SumOver(d, keys \ {k}))

\* _DictWrapper.Total: sum(self.d.itervalues())
Total(d) == SumOver(d, DOMAIN d)

\* _DictWrapper.Set: self.d[x] = y
Set(d, x, y) == [k \in DOMAIN d \cup {x} |-> IF k = x THEN y ELSE d[k]]

\* _DictWrapper.Mult: self.d[x] = self.d.get(x, 0) * factor
Mult(d, x, factor) ==
    Set(d, x, RMul(IF x \in DOMAIN d THEN d[x] ELSE Zero, factor))

\* A faulty Normalize: on a zero total it returns the total (the unreachable
\* lines after the raise) and raises nothing.
NormalizeSilent(d, fraction) ==
    LET total == Total(d)
    IN  IF total = Zero
        THEN [d |-> d, out |-> Returned(total)]
        ELSE [d |-> [x \in DOMAIN d |-> RMul(d[x], RDiv(fraction, total))],
              out |-> Returned(total)]

\* Pmf.Normalize: raises on a zero total before any weight is touched,
\* otherwise scales every weight by fraction / total and returns total.
Normalize(d, fraction) ==
    LET total == Total(d)
    IN  IF total = Zero
        THEN [d |-> d, out |-> Raised("ValueError")]
        ELSE LET factor == RDiv(fraction, total)
             IN  [d |-> [x \in DOMAIN d |-> RMul(d[x], factor)],
                  out |-> Returned(total)]

(***************************************************************************)
(* Suite.                                                                  *)
(***************************************************************************)
Hypos == {"A", "B", "C"}
Data == {"A", "B", "C"}

\* Suite.Likelihood: the Monty Hall model of the source.
Likelihood(hypo, data) ==
    IF hypo = data THEN Zero
    ELSE IF hypo = "A" THEN Half
    ELSE One

RECURSIVE MultEach(_, _, _)
\* for hypo in self.Values(): self.Mult(hypo, self.Likelihood(hypo, data))
MultEach(d, keys, data) ==
    IF keys = {} THEN d
    ELSE LET hypo == CHOOSE x \in keys : TRUE
         IN  MultEach(Mult(d, hypo, Likelihood(hypo, data)), keys \ {hypo}, data)

RECURSIVE MultDataset(_, _)
\* for data in dataset: (the loop over the hypotheses)
MultDataset(d, dataset) ==
    IF dataset = <<>> THEN d
    ELSE MultDataset(MultEach(d, DOMAIN d, Head(dataset)), Tail(dataset))

\* A faulty Update: the multiplications without the Normalize.
UpdateNoNormalize(d, data) ==
    LET m == MultEach(d, DOMAIN d, data)
    IN  [d |-> m, out |-> Returned(Total(m))]

\* A faulty Update: a failed update puts the prior back.
UpdateAtomic(d, data) ==
    LET r == Normalize(MultEach(d, DOMAIN d, data), One)
    IN  IF r.out.err = "none" THEN r ELSE [d |-> d, out |-> r.out]

\* Suite.Update
Update(d, data) == Normalize(MultEach(d, DOMAIN d, data), One)

\* A faulty UpdateSet: it returns after the first datum.
UpdateSetFirstOnly(d, dataset) ==
    IF dataset = <<>> THEN Normalize(d, One) ELSE Update(d, Head(dataset))

\* Suite.UpdateSet
UpdateSet(d, dataset) == Normalize(MultDataset(d, dataset), One)

RECURSIVE SetEach(_, _)
SetEach(d, hypos) ==
    IF hypos = {} THEN d
    ELSE LET hypo == CHOOSE x \in hypos : TRUE
         IN  SetEach(Set(d, hypo, One), hypos \ {hypo})

\* Suite.__init__: every hypothesis gets weight 1, then Normalize.
SuiteNew(hypos) == Normalize(SetEach(EmptyDict, hypos), One)

Datasets == UNION {[1..n -> Data] : n \in 0..MaxBatch}

SuiteInit ==
    /\ \E hypos \in SUBSET Hypos :
          /\ SuiteNew(hypos).out.err = "none"
          /\ suite = SuiteNew(hypos).d
    /\ nops = 0
    /\ op = [name |-> "Suite"]
    /\ ret = None
    /\ pmf = None /\ hists = None /\ cdf = None

SuiteUpdate(data) ==
    /\ nops < MaxData
    /\ LET r == Update(suite, data)
       IN  /\ suite' = r.d
           /\ ret' = r.out
    /\ op' = [name |-> "Update", data |-> data, prior |-> suite]
    /\ nops' = nops + 1
    /\ UNCHANGED <<pmf, hists, cdf>>

SuiteUpdateSet(dataset) ==
    /\ nops + Len(dataset) <= MaxData
    /\ nops < MaxData
    /\ LET r == UpdateSet(suite, dataset)
       IN  /\ suite' = r.d
           /\ ret' = r.out
    /\ op' = [name |-> "UpdateSet", dataset |-> dataset, prior |-> suite]
    /\ nops' = nops + IF dataset = <<>> THEN 1 ELSE Len(dataset)
    /\ UNCHANGED <<pmf, hists, cdf>>

SuiteNext ==
    \/ \E data \in Data : SuiteUpdate(data)
    \/ \E dataset \in Datasets : SuiteUpdateSet(dataset)

SuiteSpec == SuiteInit /\ [][SuiteNext]_vars

(***************************************************************************)
(* Claims about the Suite, checked under SuiteSpec.                        *)
(***************************************************************************)
AllZero(d) == \A h \in DOMAIN d : d[h] = Zero

\* prior(h) * Likelihood(h, data)
Joint(prior, h, data) == RMul(prior[h], Likelihood(h, data))

RECURSIVE JointSum(_, _, _)
JointSum(prior, keys, data) ==
    IF keys = {} THEN Zero
    ELSE LET h == CHOOSE x \in keys : TRUE
         IN  RAdd(Joint(prior, h, data), JointSum(prior, keys \ {h}, data))

RECURSIVE Sequential(_, _)
\* Update called once per datum, in order, stopping at the first failure.
Sequential(d, dataset) ==
    IF dataset = <<>> THEN [d |-> d, out |-> Returned(None)]
    ELSE LET r == Update(d, Head(dataset))
         IN  IF r.out.err # "none" THEN r ELSE Sequential(r.d, Tail(dataset))

Uniform3 == [h \in {"A", "B", "C"} |-> <<1, 3>>]

\* C1: Update(d), when some hypothesis has prior(h) * Likelihood(h, d) # 0,
\* returns S = sum of prior(h) * Likelihood(h, d) and leaves every h with
\* weight prior(h) * Likelihood(h, d) / S: the key set is unchanged and the
\* weights sum to 1.  From the uniform prior over A, B, C, Update('B')
\* returns 1/2 and leaves A = 1/3, B = 0, C = 2/3.
C1_UpdateIsBayes ==
    op.name = "Update" =>
        LET prior == op.prior
            S == JointSum(prior, DOMAIN prior, op.data)
        IN  /\ (\E h \in DOMAIN prior : Joint(prior, h, op.data) # Zero) =>
                  /\ ret = Returned(S)
                  /\ DOMAIN suite = DOMAIN prior
                  /\ \A h \in DOMAIN prior :
                        suite[h] = RDiv(Joint(prior, h, op.data), S)
                  /\ Total(suite) = One
            /\ (prior = Uniform3 /\ op.data = "B") =>
                  /\ ret = Returned(Half)
                  /\ suite = [h \in {"A", "B", "C"} |->
                                 IF h = "A" THEN <<1, 3>>
                                 ELSE IF h = "B" THEN Zero ELSE <<2, 3>>]

C1_Witness ==
    /\ op.name = "Update"
    /\ op.prior = Uniform3
    /\ op.data = "B"
    /\ ret = Returned(Half)

\* C2 as stated: for every Suite state and every data sequence, UpdateSet
\* leaves the posterior of the sequential run whenever that run succeeds,
\* and fails on exactly the data sequences on which the sequential run fails.
C2_BatchEqualsSequential ==
    op.name = "UpdateSet" =>
        LET seq == Sequential(op.prior, op.dataset)
        IN  /\ (seq.out.err = "none") <=> (ret.err = "none")
            /\ seq.out.err = "none" => suite = seq.d

\* C2 amended: the equivalence holds for every non-empty data sequence, and
\* for the empty sequence unless the Suite is in the all-zero state a failed
\* update leaves, where UpdateSet raises and the empty sequential run does
\* nothing.
C2_BatchEqualsSequentialNonEmpty ==
    op.name = "UpdateSet" =>
        LET seq == Sequential(op.prior, op.dataset)
        IN  /\ (op.dataset # <<>> \/ ~AllZero(op.prior)) =>
                  /\ (seq.out.err = "none") <=> (ret.err = "none")
                  /\ seq.out.err = "none" => suite = seq.d
                  /\ seq.out.err # "none" => suite = seq.d
            /\ (op.dataset = <<>> /\ AllZero(op.prior)) =>
                  /\ seq.out.err = "none"
                  /\ ret = Raised("ValueError")
                  /\ suite = op.prior

C2_Witness ==
    /\ op.name = "UpdateSet"
    /\ Len(op.dataset) = 2
    /\ op.dataset[1] # op.dataset[2]
    /\ ret.err = "none"
    /\ suite # op.prior
    /\ suite # Update(op.prior, op.dataset[1]).d

\* C10: when Update or UpdateSet raises, every weight is left at 0 with the
\* key set unchanged, whatever the prior was; and from the all-zero state
\* every later Update or UpdateSet raises again, for any data.
C10_FailureIsAbsorbing ==
    op.name \in {"Update", "UpdateSet"} =>
        /\ ret.err # "none" =>
              /\ ret = Raised("ValueError")
              /\ AllZero(suite)
              /\ DOMAIN suite = DOMAIN op.prior
              /\ op.name = "Update" =>
                    \A h \in DOMAIN op.prior : Joint(op.prior, h, op.data) = Zero
        /\ AllZero(op.prior) => (ret.err # "none" /\ suite = op.prior)

C10_Witness ==
    /\ op.name \in {"Update", "UpdateSet"}
    /\ AllZero(op.prior)
    /\ ret = Raised("ValueError")
    /\ AllZero(suite)

C10_WitnessPriorLost ==
    /\ op.name = "Update"
    /\ ~AllZero(op.prior)
    /\ ret = Raised("ValueError")
    /\ AllZero(suite)

(***************************************************************************)
(* Pmf: Set, Normalize and the free function Percentile.                   *)
(***************************************************************************)
PmfMaxVal == 2      \* the values of a Pmf are 1..PmfMaxVal
PmfMaxOps == 3      \* Set and Normalize calls in one run

PmfVals == 1..PmfMaxVal
PmfWeights == {<<-1, 1>>, Zero, Half, One}
Fractions == {One, <<2, 1>>}
Percentages == {0, 25, 50, 75, 100}

\* The orders in which a dictionary with these keys can be iterated: the
\* source sorts nothing, and the order of a dict is not the order of its keys.
Orders(keys) ==
    {o \in [1..Cardinality(keys) -> keys] :
        \A i, j \in 1..Cardinality(keys) : i # j => o[i] # o[j]}

\* _DictWrapper.Items, iterated in the given order.
Items(d, order) == [i \in 1..Len(order) |-> <<order[i], d[order[i]]>>]

RECURSIVE PercentileLoop(_, _, _)
PercentileLoop(items, p, total) ==
    IF items = <<>> THEN Returned(None)
    ELSE LET val == Head(items)[1]
             prob == Head(items)[2]
             t == RAdd(total, prob)
         IN  IF RLe(p, t) THEN Returned(val)
             ELSE PercentileLoop(Tail(items), p, t)

\* Percentile(pmf, percentage): accumulates pmf.Items() as they come and
\* returns the value at which the running total reaches percentage / 100.
Percentile(items, percentage) ==
    PercentileLoop(items, Rat(percentage, 100), Zero)

PmfInit ==
    /\ pmf = EmptyDict
    /\ nops = 0
    /\ op = [name |-> "Pmf"]
    /\ ret = None
    /\ suite = None /\ hists = None /\ cdf = None

PmfSet(x, y) ==
    /\ nops < PmfMaxOps
    /\ pmf' = Set(pmf, x, y)
    /\ op' = [name |-> "Set", x |-> x, y |-> y]
    /\ ret' = Returned(None)
    /\ nops' = nops + 1
    /\ UNCHANGED <<suite, hists, cdf>>

PmfNormalize(fraction) ==
    /\ nops < PmfMaxOps
    /\ LET r == Normalize(pmf, fraction)
       IN  /\ pmf' = r.d
           /\ ret' = r.out
    /\ op' = [name |-> "Normalize", fraction |-> fraction, prior |-> pmf]
    /\ nops' = nops + 1
    /\ UNCHANGED <<suite, hists, cdf>>

PmfPercentile(percentage, order) ==
    /\ ret' = Percentile(Items(pmf, order), percentage)
    /\ op' = [name |-> "Percentile", percentage |-> percentage, order |-> order]
    /\ UNCHANGED <<pmf, nops, suite, hists, cdf>>

PmfNext ==
    \/ \E x \in PmfVals, y \in PmfWeights : PmfSet(x, y)
    \/ \E fraction \in Fractions : PmfNormalize(fraction)
    \/ \E percentage \in Percentages, order \in Orders(DOMAIN pmf) :
          PmfPercentile(percentage, order)

PmfSpec == PmfInit /\ [][PmfNext]_vars

(***************************************************************************)
(* Claims about the Pmf, checked under PmfSpec.                            *)
(***************************************************************************)
\* C8: Normalize on a total of exactly 0 (the empty Pmf included) raises,
\* returns nothing and leaves every weight as it was; otherwise
\* Normalize(t) returns the old total, every weight has been multiplied by
\* t / old total, and the new total is t.
C8_NormalizeContract ==
    op.name = "Normalize" =>
        LET total == Total(op.prior)
        IN  IF total = Zero
            THEN ret = Raised("ValueError") /\ pmf = op.prior
            ELSE /\ ret = Returned(total)
                 /\ DOMAIN pmf = DOMAIN op.prior
                 /\ \A x \in DOMAIN pmf :
                       pmf[x] = RMul(op.prior[x], RDiv(op.fraction, total))
                 /\ Total(pmf) = op.fraction

C8_Witness ==
    /\ op.name = "Normalize"
    /\ \E x \in DOMAIN op.prior : op.prior[x] # Zero
    /\ Total(op.prior) = Zero
    /\ ret = Raised("ValueError")

C8_WitnessRescaled ==
    /\ op.name = "Normalize"
    /\ op.fraction = <<2, 1>>
    /\ Cardinality(DOMAIN pmf) = 2
    /\ Total(op.prior) \notin {Zero, One, <<2, 1>>}
    /\ ret = Returned(Total(op.prior))

Normalized(d) ==
    /\ Total(d) = One
    /\ \A x \in DOMAIN d : RLe(Zero, d[x])

\* The probability of all values <= v.
CumProb(d, v) == SumOver(d, {x \in DOMAIN d : x <= v})

\* C9: on a normalized Pmf, Percentile returns the smallest value v whose
\* cumulative probability (over the values <= v) is >= percentage / 100,
\* in whatever order the mapping is iterated.
C9_PercentileAscending ==
    (op.name = "Percentile" /\ Normalized(pmf)) =>
        /\ ret.err = "none"
        /\ ret.val \in DOMAIN pmf
        /\ RLe(Rat(op.percentage, 100), CumProb(pmf, ret.val))
        /\ \A x \in DOMAIN pmf :
              RLe(Rat(op.percentage, 100), CumProb(pmf, x)) => ret.val <= x

(***************************************************************************)
(* Hist over integer frequencies.                                          *)
(***************************************************************************)
\* Hist.Freq: self.d.get(x, 0)
Freq(d, x) == IF x \in DOMAIN d THEN d[x] ELSE 0

\* _DictWrapper.Incr: self.d[x] = self.d.get(x, 0) + term
Incr(d, x, term) == Set(d, x, Freq(d, x) + term)

\* A faulty IsSubset: it compares the stored values, not their frequencies.
IsSubsetOfKeys(d, other) == DOMAIN d \subseteq DOMAIN other

\* Hist.IsSubset: False at the first stored (val, freq) with
\* freq > other.Freq(val), True when there is none.
IsSubset(d, other) == ~ \E val \in DOMAIN d : d[val] > Freq(other, val)

RECURSIVE SubtractEach(_, _, _)
SubtractEach(d, other, keys) ==
    IF keys = {} THEN d
    ELSE LET val == CHOOSE x \in keys : TRUE
         IN  SubtractEach(Incr(d, val, -other[val]), other, keys \ {val})

\* Hist.Subtract: for val, freq in other.Items(): self.Incr(val, -freq).
\* Items() is a list made before the loop, so h.Subtract(h) reads the
\* frequencies h had when it was called.
Subtract(d, other) == SubtractEach(d, other, DOMAIN other)

RECURSIVE MakeHistFromList(_)
\* MakeHistFromList: hist.Incr(x) for every x of t, from an empty Hist.
MakeHistFromList(t) ==
    IF t = <<>> THEN EmptyDict
    ELSE Incr(MakeHistFromList(SubSeq(t, 1, Len(t) - 1)), t[Len(t)], 1)

(***************************************************************************)
(* Cdf: the bulk constructor and the two lookups.                          *)
(***************************************************************************)
\* The order of Python tuples (value, count).
PairLt(a, b) == a[1] < b[1] \/ (a[1] = b[1] /\ a[2] < b[2])

RECURSIVE InsertSorted(_, _)
InsertSorted(s, e) ==
    IF s = <<>> THEN <<e>>
    ELSE IF PairLt(e, Head(s)) THEN <<e>> \o s
    ELSE <<Head(s)>> \o InsertSorted(Tail(s), e)

RECURSIVE Sorted(_)
\* sorted(items)
Sorted(items) ==
    IF items = <<>> THEN <<>>
    ELSE InsertSorted(Sorted(Tail(items)), Head(items))

RECURSIVE RunSums(_, _)
\* cs: the running sums of the counts
RunSums(items, runsum) ==
    IF items = <<>> THEN <<>>
    ELSE <<runsum + Head(items)[2]>>
            \o RunSums(Tail(items), runsum + Head(items)[2])

\* A faulty MakeCdfFromItems: the pairs are taken as they come.
MakeCdfFromItemsUnsorted(items) ==
    LET cs == RunSums(items, 0)
        total == IF cs = <<>> THEN 0 ELSE cs[Len(cs)]
    IN  IF cs # <<>> /\ total = 0 THEN Raised("ZeroDivisionError")
        ELSE Returned([xs |-> [i \in 1..Len(items) |-> items[i][1]],
                       ps |-> [i \in 1..Len(cs) |-> Rat(cs[i], total)]])

\* MakeCdfFromItems: sort the pairs, accumulate the counts, divide each
\* running sum by the float total (a total of 0 raises at the first division).
MakeCdfFromItems(items) ==
    LET sorted == Sorted(items)
        cs == RunSums(sorted, 0)
        total == IF cs = <<>> THEN 0 ELSE cs[Len(cs)]
    IN  IF cs # <<>> /\ total = 0 THEN Raised("ZeroDivisionError")
        ELSE Returned([xs |-> [i \in 1..Len(sorted) |-> sorted[i][1]],
                       ps |-> [i \in 1..Len(cs) |-> Rat(cs[i], total)]])

\* MakeCdfFromHist: MakeCdfFromItems(hist.Items())
MakeCdfFromHist(hist, order) == MakeCdfFromItems(Items(hist, order))

\* The attributes of class Pmf: its own methods and those of _DictWrapper.
PmfAttributes ==
    {"Copy", "Prob", "Probs", "Normalize", "Random", "Mean", "Var", "Log",
     "Exp", "GetDict", "Values", "Items", "Render", "Print", "Set", "Incr",
     "Mult", "Remove", "Total", "MaxLike"}

\* MakeCdfFromList: hist = Pmf.MakeHistFromList(seq), an attribute looked
\* up on the class Pmf, then MakeCdfFromHist(hist, name).
MakeCdfFromList(seq, order) ==
    IF "MakeHistFromList" \in PmfAttributes
    THEN MakeCdfFromHist(MakeHistFromList(seq), order)
    ELSE Raised("AttributeError")

RECURSIVE BisectXs(_, _, _, _)
\* bisect.bisect(self.xs, x): lo and hi are Python's 0-based indices.
BisectXs(a, x, lo, hi) ==
    IF lo >= hi THEN lo
    ELSE LET mid == (lo + hi) \div 2
         IN  IF x < a[mid + 1] THEN BisectXs(a, x, lo, mid)
             ELSE BisectXs(a, x, mid + 1, hi)

RECURSIVE BisectPs(_, _, _, _)
\* bisect.bisect(self.ps, p)
BisectPs(a, p, lo, hi) ==
    IF lo >= hi THEN lo
    ELSE LET mid == (lo + hi) \div 2
         IN  IF RLt(p, a[mid + 1]) THEN BisectPs(a, p, lo, mid)
             ELSE BisectPs(a, p, mid + 1, hi)

\* seq[i] of Python: 0-based, negative indices count from the end.
GetItem(seq, i) ==
    IF 0 <= i /\ i < Len(seq) THEN Returned(seq[i + 1])
    ELSE IF i < 0 /\ -i <= Len(seq) THEN Returned(seq[Len(seq) + i + 1])
    ELSE Raised("IndexError")

\* Cdf.Prob
Prob(c, x) ==
    IF c.xs = <<>> THEN Raised("IndexError")
    ELSE IF x < c.xs[1] THEN Returned(Zero)
    ELSE LET index == BisectXs(c.xs, x, 0, Len(c.xs))
         IN  GetItem(c.ps, index - 1)

\* A faulty Value: no test of p == self.ps[index-1].
ValueNoTieBreak(c, p) ==
    IF RLt(p, Zero) \/ RLt(One, p) THEN Raised("ValueError")
    ELSE IF p = Zero THEN GetItem(c.xs, 0)
    ELSE IF p = One THEN GetItem(c.xs, -1)
    ELSE GetItem(c.xs, BisectPs(c.ps, p, 0, Len(c.ps)))

\* Cdf.Value
Value(c, p) ==
    IF RLt(p, Zero) \/ RLt(One, p) THEN Raised("ValueError")
    ELSE IF p = Zero THEN GetItem(c.xs, 0)
    ELSE IF p = One THEN GetItem(c.xs, -1)
    ELSE LET index == BisectPs(c.ps, p, 0, Len(c.ps))
             before == GetItem(c.ps, index - 1)
         IN  IF before.err # "none" THEN before
             ELSE IF p = before.val THEN GetItem(c.xs, index - 1)
             ELSE GetItem(c.xs, index)

(***************************************************************************)
(* Two Hists, self and other, changed by Set, Incr and Subtract, compared  *)
(* by IsSubset and handed to MakeCdfFromHist.                              *)
(***************************************************************************)
HistMaxCount == 2   \* stored frequencies stay within -HistMaxCount..HistMaxCount

HistNames == {"self", "other"}
HistVals == {1, 2}
HistCounts == (-HistMaxCount)..HistMaxCount
Terms == {-1, 1}

InRange(d) == \A x \in DOMAIN d : d[x] \in HistCounts

HistInit ==
    /\ hists = [h \in HistNames |-> EmptyDict]
    /\ op = [name |-> "Hist"]
    /\ ret = None
    /\ nops = 0
    /\ suite = None /\ pmf = None /\ cdf = None

HistSet(h, x, y) ==
    /\ hists' = [hists EXCEPT ![h] = Set(hists[h], x, y)]
    /\ op' = [name |-> "Set", h |-> h]
    /\ ret' = Returned(None)
    /\ UNCHANGED <<suite, pmf, cdf, nops>>

HistIncr(h, x, term) ==
    /\ InRange(Incr(hists[h], x, term))
    /\ hists' = [hists EXCEPT ![h] = Incr(hists[h], x, term)]
    /\ op' = [name |-> "Incr", h |-> h]
    /\ ret' = Returned(None)
    /\ UNCHANGED <<suite, pmf, cdf, nops>>

HistSubtract(h, g) ==
    /\ InRange(Subtract(hists[h], hists[g]))
    /\ hists' = [hists EXCEPT ![h] = Subtract(hists[h], hists[g])]
    /\ op' = [name |-> "Subtract", h |-> h]
    /\ ret' = Returned(None)
    /\ UNCHANGED <<suite, pmf, cdf, nops>>

HistIsSubset(h, g) ==
    /\ ret' = Returned(IsSubset(hists[h], hists[g]))
    /\ op' = [name |-> "IsSubset", h |-> h, g |-> g]
    /\ UNCHANGED <<hists, suite, pmf, cdf, nops>>

HistMakeCdfFromHist(h, order) ==
    /\ ret' = MakeCdfFromHist(hists[h], order)
    /\ op' = [name |-> "MakeCdfFromHist", h |-> h]
    /\ UNCHANGED <<hists, suite, pmf, cdf, nops>>

HistNext ==
    \/ \E h \in HistNames, x \in HistVals, y \in HistCounts : HistSet(h, x, y)
    \/ \E h \in HistNames, x \in HistVals, term \in Terms : HistIncr(h, x, term)
    \/ \E h \in HistNames, g \in HistNames : HistSubtract(h, g)
    \/ \E h \in HistNames, g \in HistNames : HistIsSubset(h, g)
    \/ \E h \in HistNames : \E order \in Orders(DOMAIN hists[h]) :
          HistMakeCdfFromHist(h, order)

HistSpec == HistInit /\ [][HistNext]_vars

(***************************************************************************)
(* A Cdf built by MakeCdfFromItems from pairs with non-negative counts,    *)
(* queried by Prob and Value.                                              *)
(***************************************************************************)
CdfMaxVal == 3      \* the values of the pairs are 1..CdfMaxVal
CdfMaxCount == 1    \* their counts are 0..CdfMaxCount
CdfMaxItems == 3    \* pairs handed to MakeCdfFromItems

CdfVals == 1..CdfMaxVal
ItemSeqs ==
    UNION {[1..n -> CdfVals \X (0..CdfMaxCount)] : n \in 0..CdfMaxItems}
Queries == 0..(CdfMaxVal + 1)
Probabilities ==
    {Rat(n, dn) : n \in (-1)..(CdfMaxItems * CdfMaxCount + 1),
                  dn \in 1..(CdfMaxItems * CdfMaxCount)}

CdfInit ==
    /\ \E items \in ItemSeqs :
          /\ MakeCdfFromItems(items).err = "none"
          /\ cdf = MakeCdfFromItems(items).val
    /\ op = [name |-> "MakeCdfFromItems"]
    /\ ret = None
    /\ nops = 0
    /\ suite = None /\ pmf = None /\ hists = None

CdfProb(x) ==
    /\ ret' = Prob(cdf, x)
    /\ op' = [name |-> "Prob", x |-> x]
    /\ UNCHANGED <<cdf, suite, pmf, hists, nops>>

CdfValue(p) ==
    /\ ret' = Value(cdf, p)
    /\ op' = [name |-> "Value", p |-> p]
    /\ UNCHANGED <<cdf, suite, pmf, hists, nops>>

\* cdf.Value(cdf.Prob(x))
CdfValueOfProb(x) ==
    /\ ret' = IF Prob(cdf, x).err # "none" THEN Prob(cdf, x)
              ELSE Value(cdf, Prob(cdf, x).val)
    /\ op' = [name |-> "ValueOfProb", x |-> x]
    /\ UNCHANGED <<cdf, suite, pmf, hists, nops>>

CdfNext ==
    \/ \E x \in Queries : CdfProb(x)
    \/ \E p \in Probabilities : CdfValue(p)
    \/ \E x \in Queries : CdfValueOfProb(x)

CdfSpec == CdfInit /\ [][CdfNext]_vars

(***************************************************************************)
(* A Cdf from a raw list of observations: in one call, MakeCdfFromList, or *)
(* in two, MakeHistFromList and then MakeCdfFromHist.                      *)
(***************************************************************************)
ListMaxVal == 3     \* the observations are 1..ListMaxVal
ListMaxLen == 3     \* observations in a list

Lists == UNION {[1..n -> 1..ListMaxVal] : n \in 1..ListMaxLen}

ListInit ==
    /\ hists = [self |-> EmptyDict]
    /\ cdf = [xs |-> <<>>, ps |-> <<>>]
    /\ op = [name |-> "Cdf"]
    /\ ret = None
    /\ nops = 0
    /\ suite = None /\ pmf = None

ListMakeHistFromList(seq) ==
    /\ hists' = [self |-> MakeHistFromList(seq)]
    /\ op' = [name |-> "MakeHistFromList", seq |-> seq]
    /\ ret' = Returned(None)
    /\ UNCHANGED <<cdf, suite, pmf, nops>>

ListMakeCdfFromHist(order) ==
    /\ ret' = MakeCdfFromHist(hists.self, order)
    /\ cdf' = IF MakeCdfFromHist(hists.self, order).err = "none"
              THEN MakeCdfFromHist(hists.self, order).val ELSE cdf
    /\ op' = [name |-> "MakeCdfFromHist"]
    /\ UNCHANGED <<hists, suite, pmf, nops>>

ListMakeCdfFromList(seq, order) ==
    /\ ret' = MakeCdfFromList(seq, order)
    /\ cdf' = IF MakeCdfFromList(seq, order).err = "none"
              THEN MakeCdfFromList(seq, order).val ELSE cdf
    /\ op' = [name |-> "MakeCdfFromList", seq |-> seq]
    /\ UNCHANGED <<hists, suite, pmf, nops>>

ListNext ==
    \/ \E seq \in Lists : ListMakeHistFromList(seq)
    \/ \E order \in Orders(DOMAIN hists.self) : ListMakeCdfFromHist(order)
    \/ \E seq \in Lists :
          \E order \in Orders({seq[i] : i \in 1..Len(seq)}) :
             ListMakeCdfFromList(seq, order)

ListSpec == ListInit /\ [][ListNext]_vars

(***************************************************************************)
(* Claims about the Hist, checked under HistSpec.                          *)
(***************************************************************************)
RECURSIVE IntSum(_, _)
IntSum(d, keys) ==
    IF keys = {} THEN 0
    ELSE LET k == CHOOSE x \in keys : TRUE
         IN  d[k] + IntSum(d, keys \ {k})

NoNegative(d) == \A x \in DOMAIN d : d[x] >= 0

\* Every value whose frequency in d is not 0 has Freq <= other's.
NonZeroWithin(d, other) ==
    \A v \in HistVals : Freq(d, v) # 0 => Freq(d, v) <= Freq(other, v)

\* C6 as stated: IsSubset is true exactly when every value with a non-zero
\* frequency in self has self.Freq(v) <= other.Freq(v); a stored frequency
\* of 0 never makes it false.
C6_IsSubsetNonZero ==
    op.name = "IsSubset" =>
        ret.val = NonZeroWithin(hists[op.h], hists[op.g])

\* C6 amended: IsSubset is true exactly when every value STORED in self,
\* those of frequency 0 included, has self.Freq(v) <= other.Freq(v).  When
\* other holds no negative frequency this is the stated condition, and
\* h.IsSubset(h) is always true.
C6_IsSubsetStored ==
    op.name = "IsSubset" =>
        LET d == hists[op.h]
            other == hists[op.g]
        IN  /\ ret.val = (\A v \in DOMAIN d : d[v] <= Freq(other, v))
            /\ NoNegative(other) => ret.val = NonZeroWithin(d, other)
            /\ op.h = op.g => ret.val = TRUE

C6_Witness ==
    /\ op.name = "IsSubset"
    /\ \E v \in DOMAIN hists[op.h] :
          hists[op.h][v] = 0 /\ Freq(hists[op.g], v) < 0
    /\ NonZeroWithin(hists[op.h], hists[op.g])
    /\ ret.val = FALSE

SortedXs(c) == \A i, j \in 1..Len(c.xs) : i <= j => c.xs[i] <= c.xs[j]
NonDecreasingPs(c) ==
    \A i, j \in 1..Len(c.ps) : i <= j => RLe(c.ps[i], c.ps[j])
PsInUnit(c) ==
    \A i \in 1..Len(c.ps) : RLe(Zero, c.ps[i]) /\ RLe(c.ps[i], One)
EndsAtOne(c) == c.ps # <<>> /\ c.ps[Len(c.ps)] = One
ProbMonotone(c) ==
    \A x, y \in 0..3 :
        /\ Prob(c, x).err = "none"
        /\ RLe(Zero, Prob(c, x).val) /\ RLe(Prob(c, x).val, One)
        /\ x <= y => RLe(Prob(c, x).val, Prob(c, y).val)

\* C5 as stated: the Cdf of any Hist of positive total has xs ascending, ps
\* non-decreasing within [0,1] and ending at 1, and Prob non-decreasing
\* within [0,1].
C5_CdfWellFormed ==
    (op.name = "MakeCdfFromHist"
       /\ IntSum(hists[op.h], DOMAIN hists[op.h]) > 0) =>
        /\ ret.err = "none"
        /\ SortedXs(ret.val) /\ EndsAtOne(ret.val)
        /\ NonDecreasingPs(ret.val) /\ PsInUnit(ret.val)
        /\ ProbMonotone(ret.val)

\* C5 amended: the Cdf of a Hist of positive total has xs ascending and ps
\* ending at 1; when no stored frequency is negative, ps is non-decreasing
\* within [0,1] and Prob is non-decreasing within [0,1].
C5_CdfWellFormedNonNegative ==
    (op.name = "MakeCdfFromHist"
       /\ IntSum(hists[op.h], DOMAIN hists[op.h]) > 0) =>
        /\ ret.err = "none"
        /\ SortedXs(ret.val) /\ EndsAtOne(ret.val)
        /\ NoNegative(hists[op.h]) =>
              /\ NonDecreasingPs(ret.val) /\ PsInUnit(ret.val)
              /\ ProbMonotone(ret.val)

C5_Witness ==
    /\ op.name = "MakeCdfFromHist"
    /\ hists[op.h] = (1 :> 1 @@ 2 :> 2)
    /\ ret = Returned([xs |-> <<1, 2>>, ps |-> <<<<1, 3>>, One>>])

(***************************************************************************)
(* Claims about the Cdf, checked under CdfSpec.                            *)
(***************************************************************************)
MinOf(S) == CHOOSE x \in S : \A y \in S : x <= y
MaxOf(S) == CHOOSE x \in S : \A y \in S : x >= y

InUnit(p) == RLe(Zero, p) /\ RLe(p, One)

\* The indices whose cumulative probability is >= p, and those where it is p.
AtLeast(c, p) == {i \in 1..Len(c.ps) : RLe(p, c.ps[i])}
Exactly(c, p) == {i \in 1..Len(c.ps) : c.ps[i] = p}

\* C3 as stated: Value(p), for p in [0,1], is the smallest stored value
\* whose cumulative probability is >= p, also where consecutive values
\* share a cumulative probability; outside [0,1] it raises.
C3_ValueIsSmallest ==
    (op.name = "Value" /\ cdf.xs # <<>>) =>
        IF InUnit(op.p)
        THEN ret = Returned(cdf.xs[MinOf(AtLeast(cdf, op.p))])
        ELSE ret = Raised("ValueError")

\* C3 amended: Value(p), for p in [0,1], is the smallest stored value whose
\* cumulative probability is >= p, except where several entries have
\* cumulative probability exactly p > 0: there it is the value of the last
\* of them (for p = 1, the largest stored value).  Outside [0,1] it raises.
C3_ValueTieBreak ==
    (op.name = "Value" /\ cdf.xs # <<>>) =>
        IF InUnit(op.p)
        THEN ret = Returned(cdf.xs[
                     IF op.p # Zero /\ Exactly(cdf, op.p) # {}
                     THEN MaxOf(Exactly(cdf, op.p))
                     ELSE MinOf(AtLeast(cdf, op.p))])
        ELSE ret = Raised("ValueError")

C3_Witness ==
    /\ op.name = "Value"
    /\ cdf = [xs |-> <<1, 2, 3>>, ps |-> <<Half, Half, One>>]
    /\ op.p = Half
    /\ ret = Returned(2)

\* C4: for every x >= min(xs), Value(Prob(x)) is >= the largest stored
\* value that is <= x, also when leading entries have a count of 0.
C4_RoundTrip ==
    (op.name = "ValueOfProb" /\ cdf.xs # <<>> /\ op.x >= cdf.xs[1]) =>
        /\ ret.err = "none"
        /\ ret.val >= MaxOf({cdf.xs[i] : i \in {j \in 1..Len(cdf.xs) :
                                                   cdf.xs[j] <= op.x}})

\* C7 (checked under ListSpec): MakeCdfFromList(seq) returns, without
\* raising, the Cdf that MakeCdfFromHist builds from MakeHistFromList(seq).
C7_FromListIsFromHist ==
    op.name = "MakeCdfFromList" =>
        /\ ret.err = "none"
        /\ \A order \in Orders(DOMAIN MakeHistFromList(op.seq)) :
              ret = MakeCdfFromHist(MakeHistFromList(op.seq), order)

====
